---- MODULE Spec2Model ----
(***************************************************************************)
(* The aggregator of hardcoded-disablers (src/aggregator/main.go): one     *)
(* POST /analyze request is validated, fanned out to 8 downstream          *)
(* services by 8 goroutines sharing a response, an error list, a mutex and *)
(* a wait group, joined, and answered.  SpecLive adds dependencies that do *)
(* not answer and a caller that goes away, SpecPair a second request       *)
(* served at the same time.                                                *)
(*                                                                         *)
(* Numbers carried by JSON (float64 in Go) are modelled in tenths: the     *)
(* integer 75 stands for 7.5.  A text is the sequence of its code points;  *)
(* Go's len(text) is the length of its UTF-8 encoding.                     *)
(***************************************************************************)
EXTENDS Integers, Sequences, FiniteSets, TLC

\* ------------------------------------------------------------------ bounds

\* Most goroutines the scheduler lets exist unfinished at once: the main
\* goroutine is not scheduled to start the next one while this many run.
MaxInFlight == 2

\* Most dependencies that leave a request's call unanswered.
MaxHung == 1

\* How many requests to /op the downstream services receive.
MaxOps == 3

\* ------------------------------------------------------------- JSON values

JNull == [kind |-> "null", s |-> "", n |-> 0, b |-> FALSE, o |-> <<>>]

JStr(str) == [kind |-> "string", s |-> str, n |-> 0, b |-> FALSE, o |-> <<>>]

JNum(tenths) == [kind |-> "number", s |-> "", n |-> tenths, b |-> FALSE, o |-> <<>>]

JBool(bool) == [kind |-> "bool", s |-> "", n |-> 0, b |-> bool, o |-> <<>>]

\* A JSON object: `members` is a sequence of <<key, value>> pairs.
JObj(members) == [kind |-> "object", s |-> "", n |-> 0, b |-> FALSE, o |-> members]

\* data[key] of a map[string]interface{}: the value, or nil for a missing key.
MapGet(members, key) ==
    IF \E i \in 1..Len(members) : members[i][1] = key
    THEN members[CHOOSE i \in 1..Len(members) : members[i][1] = key][2]
    ELSE JNull

\* GoInt as it would be if the conversion rounded down.
GoIntFloor(tenths) == tenths \div 10

\* int(f) of a float64 f: the fraction is dropped, toward zero.
GoInt(tenths) ==
    IF tenths >= 0 THEN tenths \div 10 ELSE -((-tenths) \div 10)

\* ------------------------------------------------------------------- texts

Utf8Len(cp) ==
    IF cp < 128 THEN 1
    ELSE IF cp < 2048 THEN 2
    ELSE IF cp < 65536 THEN 3
    ELSE 4

RECURSIVE GoLen(_)
\* len(text): the number of bytes of the string.
GoLen(text) ==
    IF text = <<>> THEN 0 ELSE Utf8Len(Head(text)) + GoLen(Tail(text))

\* The texts tried in bodies that are one JSON object: "", and e-acute
\* followed by the euro sign (2 code points, 2 + 3 bytes in UTF-8).
Texts == {<<>>, <<233, 8364>>}

\* ---------------------------------------------------- the inbound request

Methods == {"POST", "GET"}

\* What a request's body begins with: bytes that are no JSON value
\* ("malformed"), or a JSON object whose "text" member is absent, null, a
\* number or a string.
BodyKinds == {"malformed", "absent", "null", "number", "string"}

\* Bodies that are one JSON object and nothing more, or not JSON from the
\* first byte.
CleanBodies ==
    [kind : BodyKinds \ {"string"}, text : {<<>>}, trailing : {FALSE}]
        \cup [kind : {"string"}, text : Texts, trailing : {FALSE}]

\* The bodies tried: the clean ones, and two in which the JSON object is
\* followed by bytes that are not JSON: {}xyz and {"text":"h"}xyz.
Bodies ==
    CleanBodies
        \cup { [kind |-> "absent", text |-> <<>>, trailing |-> TRUE],
               [kind |-> "string", text |-> <<104>>, trailing |-> TRUE] }

\* The bodies tried in an environment: all of them in a "drift", the clean
\* ones in the others.
BodiesIn(prof) == IF prof = "drift" THEN Bodies ELSE CleanBodies

\* json.NewDecoder(r.Body).Decode(&req) into AnalyseRequest{Text string}:
\* Decode reads the first JSON value of the body and does not look at what
\* follows it.  A syntax error in that value or a "text" of another type is
\* an error; an absent or null "text" leaves Text at "".
DecodeAnalyseRequest(body) ==
    CASE body.kind \in {"malformed", "number"} -> [err |-> TRUE, Text |-> <<>>]
      [] body.kind \in {"absent", "null"} -> [err |-> FALSE, Text |-> <<>>]
      [] OTHER -> [err |-> FALSE, Text |-> body.text]

StatusOK == 200
StatusBadRequest == 400
StatusMethodNotAllowed == 405
StatusInternalServerError == 500

\* ------------------------------------------------------- the dependencies

\* The 8 downstream services, in the order aggregateAnalysis starts them.
Deps ==
    << "normalizer", "transliterator", "slugger", "tokenizer",
       "counter", "hasher", "entropy", "palindrome" >>

DepSet == {Deps[i] : i \in 1..Len(Deps)}

\* NewResponse as it would be if CharCount counted code points.
NewResponseCountsRunes(text) ==
    [ Normalized |-> "", Transliterated |-> "", Slug |-> "", Tokens |-> 0,
      UniqueWords |-> 0, BigramCount |-> 0, CharCount |-> Len(text),
      UniqueChars |-> 0, Hash64 |-> "", Entropy |-> 0, Palindrome |-> FALSE,
      Degraded |-> FALSE ]

\* The zero value of *AnalyseResponse's fields, with CharCount set.
NewResponse(text) ==
    [ Normalized |-> "", Transliterated |-> "", Slug |-> "", Tokens |-> 0,
      UniqueWords |-> 0, BigramCount |-> 0, CharCount |-> GoLen(text),
      UniqueChars |-> 0, Hash64 |-> "", Entropy |-> 0, Palindrome |-> FALSE,
      Degraded |-> FALSE ]

\* What a dependency's HTTP exchange can come to, as the client sees it.
FailTransport ==
    [transportErr |-> TRUE, status |-> 0, readErr |-> FALSE, decodable |-> FALSE, value |-> JNull, error |-> ""]

\* An HTTP 500 whose body is nonetheless a decodable envelope.
FailStatus ==
    [transportErr |-> FALSE, status |-> StatusInternalServerError, readErr |-> FALSE,
     decodable |-> TRUE, value |-> JNull, error |-> ""]

FailRead ==
    [transportErr |-> FALSE, status |-> StatusOK, readErr |-> TRUE, decodable |-> FALSE,
     value |-> JNull, error |-> ""]

FailDecode ==
    [transportErr |-> FALSE, status |-> StatusOK, readErr |-> FALSE, decodable |-> FALSE,
     value |-> JNull, error |-> ""]

Envelope(value) ==
    [transportErr |-> FALSE, status |-> StatusOK, readErr |-> FALSE, decodable |-> TRUE,
     value |-> value, error |-> ""]

\* The envelope a service sends, with HTTP 200, when it refuses its input:
\* "value": null and an "error" string.
Refusal(msg) ==
    [transportErr |-> FALSE, status |-> StatusOK, readErr |-> FALSE, decodable |-> TRUE,
     value |-> JNull, error |-> msg]

\* A value of the shape the aggregator expects of each dependency.
GoodValue(d) ==
    CASE d = "normalizer" -> JStr("a man a plan")
      [] d = "transliterator" -> JStr("a man a plan t")
      [] d = "slugger" -> JStr("a-man-a-plan")
      [] d = "tokenizer" -> JNum(75)
      [] d = "counter" ->
            JObj(<< <<"unique_words", JNum(60)>>, <<"bigram_count", JNum(69)>>,
                    <<"unique_chars", JNum(150)>> >>)
      [] d = "hasher" -> JStr("cbf29ce484222325")
      [] d = "entropy" -> JNum(32)
      [] d = "palindrome" -> JBool(TRUE)

\* A value of another shape, as an HTTP 200 envelope can carry.
OddValue(d) ==
    CASE d = "normalizer" -> JNum(10)
      [] d = "transliterator" -> JNull
      [] d = "slugger" -> JNull
      [] d = "tokenizer" -> JStr("7")
      [] d = "counter" -> JStr("6,6,15")
      [] d = "hasher" -> JNum(42)
      [] d = "entropy" -> JStr("3.2")
      [] d = "palindrome" -> JStr("true")

\* The services that answer a refusal, and what each says.
Refusing == {"normalizer", "transliterator", "slugger"}

RefusalOf(d) ==
    CASE d = "normalizer" -> Refusal("Text too long (max 10000 characters)")
      [] d = "transliterator" -> Refusal("No normalized text in deps or text provided")
      [] d = "slugger" -> Refusal("No valid characters found for slug generation")

\* Counter objects in which a key is missing or no number.
CounterWithoutChars ==
    JObj(<< <<"unique_words", JNum(60)>>, <<"bigram_count", JStr("7")>> >>)

CounterOnlyBigrams ==
    JObj(<< <<"unique_words", JNull>>, <<"bigram_count", JNum(-25)>>,
            <<"unique_chars", JBool(TRUE)>> >>)

\* The answers of other shapes tried in the environment "shapes": a
\* refusal, a negative number and a string for the tokenizer, and for the
\* counter objects short of a numeric key and a string.
Shapes(d) ==
    CASE d \in Refusing -> {RefusalOf(d)}
      [] d = "tokenizer" -> {Envelope(JNum(-75)), Envelope(OddValue(d))}
      [] d = "counter" ->
            {Envelope(CounterWithoutChars), Envelope(CounterOnlyBigrams),
             Envelope(OddValue(d))}
      [] OTHER -> {}

\* The way each dependency's call fails when it fails.
Failure(d) ==
    CASE d \in {"normalizer", "counter"} -> FailTransport
      [] d \in {"transliterator", "hasher"} -> FailStatus
      [] d \in {"slugger", "entropy"} -> FailRead
      [] OTHER -> FailDecode

\* The environments a request is served in.  In an "outage" any call may
\* fail and these dependencies may answer with a value of another shape:
Drifting == {"transliterator", "counter"}

\* in a "drift" any dependency may answer with a value of another shape
\* and the calls to these may fail:
Failing == {"normalizer", "tokenizer", "hasher"}

\* in a "pair" and in a "calm" every dependency answers the request with a
\* value of the expected shape; in "shapes" no call fails and the answers
\* are those of Shapes.
Profiles == {"outage", "drift", "pair", "calm", "shapes"}

MayFail(d, prof) == prof = "outage" \/ (prof = "drift" /\ d \in Failing)

MayDrift(d, prof) == prof = "drift" \/ (prof = "outage" /\ d \in Drifting)

\* What the exchange with dependency d can come to in an environment.
Replies(d, prof) ==
    {Envelope(GoodValue(d))}
        \cup (IF MayFail(d, prof) THEN {Failure(d)} ELSE {})
        \cup (IF MayDrift(d, prof) THEN {Envelope(OddValue(d))} ELSE {})
        \cup (IF prof = "shapes" THEN Shapes(d) ELSE {})

\* Payload as it would be if the calls were chained through "deps": the
\* transliterator sent the normalizer's output, the slugger the
\* transliterator's.
PayloadChained(d, text) ==
    [url |-> d, path |-> "/op", Text |-> text,
     hasDeps |-> (d \in {"transliterator", "slugger"})]

\* The request callMicroservice posts: OpRequest{Text: &text}, no Deps.
Payload(d, text) == [url |-> d, path |-> "/op", Text |-> text, hasDeps |-> FALSE]

NilErr == "nil"

\* callMicroservice as it would be if an envelope with a null value were
\* reported as an error.
callMicroserviceRejectsNull(d, text, reply) ==
    IF reply.transportErr THEN [err |-> "transport", Value |-> JNull]
    ELSE IF reply.status # StatusOK THEN [err |-> "status", Value |-> JNull]
    ELSE IF reply.readErr THEN [err |-> "read", Value |-> JNull]
    ELSE IF ~reply.decodable THEN [err |-> "decode", Value |-> JNull]
    ELSE IF reply.value.kind = "null" THEN [err |-> "decode", Value |-> JNull]
    ELSE [err |-> NilErr, Value |-> reply.value]

\* callMicroservice as it would be if OpResponse had the envelope's Error
\* field and a non-empty one were returned as an error.
callMicroserviceReadsError(d, text, reply) ==
    IF reply.transportErr THEN [err |-> "transport", Value |-> JNull]
    ELSE IF reply.status # StatusOK THEN [err |-> "status", Value |-> JNull]
    ELSE IF reply.readErr THEN [err |-> "read", Value |-> JNull]
    ELSE IF ~reply.decodable THEN [err |-> "decode", Value |-> JNull]
    ELSE IF reply.error # "" THEN [err |-> "service", Value |-> JNull]
    ELSE [err |-> NilErr, Value |-> reply.value]

\* callMicroservice as it would be without the check of the status code.
callMicroserviceAnyStatus(d, text, reply) ==
    IF reply.transportErr THEN [err |-> "transport", Value |-> JNull]
    ELSE IF reply.readErr THEN [err |-> "read", Value |-> JNull]
    ELSE IF ~reply.decodable THEN [err |-> "decode", Value |-> JNull]
    ELSE [err |-> NilErr, Value |-> reply.value]

\* callMicroservice(url, text), given what the exchange comes to: the
\* decoded envelope's value and a nil error, or an error.
callMicroservice(d, text, reply) ==
    IF reply.transportErr THEN [err |-> "transport", Value |-> JNull]
    ELSE IF reply.status # StatusOK THEN [err |-> "status", Value |-> JNull]
    ELSE IF reply.readErr THEN [err |-> "read", Value |-> JNull]
    ELSE IF ~reply.decodable THEN [err |-> "decode", Value |-> JNull]
    ELSE [err |-> NilErr, Value |-> reply.value]

\* ShapeOK as it would be if the palindrome were asserted to be a string.
ShapeOKPalindromeString(d, v) ==
    CASE d \in {"normalizer", "transliterator", "slugger", "hasher", "palindrome"} ->
            v.kind = "string"
      [] d \in {"tokenizer", "entropy"} -> v.kind = "number"
      [] d = "counter" -> v.kind = "object"

\* The type assertion each goroutine makes on resp.Value before it locks.
ShapeOK(d, v) ==
    CASE d \in {"normalizer", "transliterator", "slugger", "hasher"} -> v.kind = "string"
      [] d \in {"tokenizer", "entropy"} -> v.kind = "number"
      [] d = "counter" -> v.kind = "object"
      [] d = "palindrome" -> v.kind = "bool"

\* CounterField as it would be if a key were taken only from an object in
\* which all three are numbers.
CounterFieldAllOrNone(members, key, old) ==
    IF \A k \in {"unique_words", "bigram_count", "unique_chars"} :
          MapGet(members, k).kind = "number"
    THEN GoInt(MapGet(members, key).n)
    ELSE old

\* One numeric member of the counter's object, or the field's old value.
CounterField(members, key, old) ==
    IF MapGet(members, key).kind = "number" THEN GoInt(MapGet(members, key).n) ELSE old

\* Assemble as it would be if the hasher's write also reset the slug.
AssembleHasherClearsSlug(d, v, resp) ==
    CASE d = "normalizer" -> [resp EXCEPT !.Normalized = v.s]
      [] d = "transliterator" -> [resp EXCEPT !.Transliterated = v.s]
      [] d = "slugger" -> [resp EXCEPT !.Slug = v.s]
      [] d = "tokenizer" -> [resp EXCEPT !.Tokens = GoInt(v.n)]
      [] d = "counter" ->
            [resp EXCEPT !.UniqueWords = CounterField(v.o, "unique_words", @),
                         !.BigramCount = CounterField(v.o, "bigram_count", @),
                         !.UniqueChars = CounterField(v.o, "unique_chars", @)]
      [] d = "hasher" -> [resp EXCEPT !.Hash64 = v.s, !.Slug = ""]
      [] d = "entropy" -> [resp EXCEPT !.Entropy = v.n]
      [] d = "palindrome" -> [resp EXCEPT !.Palindrome = v.b]

\* Assemble as it would be if the transliterator's goroutine wrote the
\* normalizer's field.
AssembleOverNormalized(d, v, resp) ==
    CASE d = "normalizer" -> [resp EXCEPT !.Normalized = v.s]
      [] d = "transliterator" -> [resp EXCEPT !.Normalized = v.s]
      [] d = "slugger" -> [resp EXCEPT !.Slug = v.s]
      [] d = "tokenizer" -> [resp EXCEPT !.Tokens = GoInt(v.n)]
      [] d = "counter" ->
            [resp EXCEPT !.UniqueWords = CounterField(v.o, "unique_words", @),
                         !.BigramCount = CounterField(v.o, "bigram_count", @),
                         !.UniqueChars = CounterField(v.o, "unique_chars", @)]
      [] d = "hasher" -> [resp EXCEPT !.Hash64 = v.s]
      [] d = "entropy" -> [resp EXCEPT !.Entropy = v.n]
      [] d = "palindrome" -> [resp EXCEPT !.Palindrome = v.b]

\* Assemble as it would be with the slugger's and the hasher's target
\* fields exchanged.
AssembleCrossed(d, v, resp) ==
    CASE d = "normalizer" -> [resp EXCEPT !.Normalized = v.s]
      [] d = "transliterator" -> [resp EXCEPT !.Transliterated = v.s]
      [] d = "slugger" -> [resp EXCEPT !.Hash64 = v.s]
      [] d = "tokenizer" -> [resp EXCEPT !.Tokens = GoInt(v.n)]
      [] d = "counter" ->
            [resp EXCEPT !.UniqueWords = CounterField(v.o, "unique_words", @),
                         !.BigramCount = CounterField(v.o, "bigram_count", @),
                         !.UniqueChars = CounterField(v.o, "unique_chars", @)]
      [] d = "hasher" -> [resp EXCEPT !.Slug = v.s]
      [] d = "entropy" -> [resp EXCEPT !.Entropy = v.n]
      [] d = "palindrome" -> [resp EXCEPT !.Palindrome = v.b]

\* The assignment(s) a goroutine makes to the shared response under the lock.
Assemble(d, v, resp) ==
    CASE d = "normalizer" -> [resp EXCEPT !.Normalized = v.s]
      [] d = "transliterator" -> [resp EXCEPT !.Transliterated = v.s]
      [] d = "slugger" -> [resp EXCEPT !.Slug = v.s]
      [] d = "tokenizer" -> [resp EXCEPT !.Tokens = GoInt(v.n)]
      [] d = "counter" ->
            [resp EXCEPT !.UniqueWords = CounterField(v.o, "unique_words", @),
                         !.BigramCount = CounterField(v.o, "bigram_count", @),
                         !.UniqueChars = CounterField(v.o, "unique_chars", @)]
      [] d = "hasher" -> [resp EXCEPT !.Hash64 = v.s]
      [] d = "entropy" -> [resp EXCEPT !.Entropy = v.n]
      [] d = "palindrome" -> [resp EXCEPT !.Palindrome = v.b]

\* WrapError as it would be without the name in front.
WrapErrorUnnamed(d, err) == [dep |-> "", cause |-> err]

\* fmt.Errorf("<name>: %w", err): the dependency's name and the cause.
WrapError(d, err) == [dep |-> d, cause |-> err]

\* ------------------------------------------------------------------- state

VARIABLES
    hpc,        \* where handleAnalyze is: "idle", "recv", "launch", "wait", "returned", "done"
    req,        \* the inbound request: its method and body
    status,     \* the HTTP status written to the caller, 0 while none is
    out,        \* the body written to the caller: "none", "error" or "json"
    sent,       \* the AnalyseResponse encoded into the body
    text,       \* aggregateAnalysis's argument
    response,   \* the shared *AnalyseResponse
    errors,     \* the shared error list
    mu,         \* sync.Mutex: "free", or the goroutine holding it
    wg,         \* sync.WaitGroup's counter
    launched,   \* how many goroutines the main goroutine has started
    tpc,        \* where each goroutine is: "idle", "run", "lock", "locked", "done"
    reply,      \* what each dependency's HTTP exchange came to
    result,     \* what callMicroservice returned to each goroutine
    posted,     \* the requests posted to each dependency, in order
    aggErr,     \* the error aggregateAnalysis returned
    profile,    \* the environment the dependencies are in
    peer,       \* the locals of the other calls of aggregateAnalysis in progress
    timedOut,   \* the dependencies whose call the http.Client's timedOut has ended
    connected,  \* whether the inbound caller's connection is still open
    requestCounter, \* each counting service's requestCounter
    ops,        \* the requests to /op of the counting services, in order of arrival
    scraped     \* what the last request to /metrics was answered

extVars == << peer, timedOut, connected >>

svcVars == << requestCounter, ops, scraped >>

vars ==
    << hpc, req, status, out, sent, text, response, errors, mu, wg, launched,
       tpc, reply, result, posted, aggErr, profile, extVars, svcVars >>

aggVars ==
    << text, response, errors, mu, wg, launched, tpc, reply, result, posted, aggErr >>

NoRequest == [method |-> "", body |-> [kind |-> "absent", text |-> <<>>, trailing |-> FALSE]]

NoResult == [err |-> "pending", Value |-> JNull]

NoReply ==
    [transportErr |-> FALSE, status |-> 0, readErr |-> FALSE, decodable |-> FALSE,
     value |-> JNull, error |-> ""]

\* aggregateAnalysis's locals as a call begins, before the response is made.
NoCall ==
    [ pc |-> "launch", text |-> <<>>, response |-> NewResponse(<<>>), errors |-> <<>>,
      mu |-> "free", wg |-> 0, launched |-> 0,
      tpc |-> [d \in DepSet |-> "idle"],
      reply |-> [d \in DepSet |-> NoReply],
      result |-> [d \in DepSet |-> NoResult] ]

\* The downstream services modelled with their counter: each is a process
\* of its own, with its own requestCounter.
Counting == {"transliterator", "normalizer"}

\* No request to /metrics has been answered.
NoScrape == [service |-> "", status |-> 0, count |-> 0]

\* The state before a request, in environment prof.
Start(prof) ==
    /\ hpc = "idle"
    /\ req = NoRequest
    /\ status = 0
    /\ out = "none"
    /\ sent = NewResponse(<<>>)
    /\ text = <<>>
    /\ response = NewResponse(<<>>)
    /\ errors = <<>>
    /\ mu = "free"
    /\ wg = 0
    /\ launched = 0
    /\ tpc = [d \in DepSet |-> "idle"]
    /\ reply = [d \in DepSet |-> NoReply]
    /\ result = [d \in DepSet |-> NoResult]
    /\ posted = [d \in DepSet |-> <<>>]
    /\ aggErr = NilErr
    /\ profile = prof
    /\ peer = <<>>
    /\ timedOut = {}
    /\ connected = TRUE
    /\ requestCounter = [s \in Counting |-> 0]
    /\ ops = <<>>
    /\ scraped = NoScrape

Init == Start("outage")

InitDrift == Start("drift")

\* -------------------------------------------------- the request boundary

\* A request to /analyze arrives.
Receive ==
    /\ hpc = "idle"
    /\ \E m \in Methods, b \in BodiesIn(profile) : req' = [method |-> m, body |-> b]
    /\ hpc' = "recv"
    /\ UNCHANGED << status, out, sent, aggVars, profile, extVars, svcVars >>

\* Rejection as it would be without the check for an empty text.
RejectionAllowsEmpty(r) ==
    IF r.method # "POST" THEN StatusMethodNotAllowed
    ELSE IF DecodeAnalyseRequest(r.body).err THEN StatusBadRequest
    ELSE 0

\* Rejection as it would be if the body were decoded before the method
\* is looked at.
RejectionDecodesFirst(r) ==
    IF DecodeAnalyseRequest(r.body).err THEN StatusBadRequest
    ELSE IF r.method # "POST" THEN StatusMethodNotAllowed
    ELSE IF DecodeAnalyseRequest(r.body).Text = <<>> THEN StatusBadRequest
    ELSE 0

\* The status handleAnalyze rejects the request with, 0 if it does not.
Rejection(r) ==
    IF r.method # "POST" THEN StatusMethodNotAllowed
    ELSE IF DecodeAnalyseRequest(r.body).err THEN StatusBadRequest
    ELSE IF DecodeAnalyseRequest(r.body).Text = <<>> THEN StatusBadRequest
    ELSE 0

\* handleAnalyze up to an early return: http.Error and return.
Reject ==
    /\ hpc = "recv"
    /\ Rejection(req) # 0
    /\ status' = Rejection(req)
    /\ out' = "error"
    /\ hpc' = "done"
    /\ UNCHANGED << req, sent, aggVars, profile, extVars, svcVars >>

\* handleAnalyze calls aggregateAnalysis(req.Text), which makes the
\* response, with CharCount and Degraded set, and the empty error list.
Accept ==
    /\ hpc = "recv"
    /\ Rejection(req) = 0
    /\ text' = DecodeAnalyseRequest(req.body).Text
    /\ response' = NewResponse(DecodeAnalyseRequest(req.body).Text)
    /\ errors' = <<>>
    /\ hpc' = "launch"
    /\ UNCHANGED << req, status, out, sent, mu, wg, launched, tpc, reply, result, posted,
                    aggErr, profile, extVars, svcVars >>

\* ------------------------------------------------------ aggregateAnalysis

Unfinished == {d \in DepSet : tpc[d] \notin {"idle", "done"}}

\* The same of the second call of aggregateAnalysis.
PeerUnfinished ==
    IF peer = <<>> THEN {}
    ELSE {d \in DepSet : peer[1].tpc[d] \notin {"idle", "done"}}

\* Launch as it would be without wg.Add(1).
LaunchWithoutAdd ==
    /\ hpc = "launch"
    /\ Cardinality(Unfinished) + Cardinality(PeerUnfinished) < MaxInFlight
    /\ tpc' = [tpc EXCEPT ![Deps[launched + 1]] = "run"]
    /\ launched' = launched + 1
    /\ hpc' = IF launched + 1 = Len(Deps) THEN "wait" ELSE "launch"
    /\ UNCHANGED << req, status, out, sent, text, response, errors, mu, wg, reply, result,
                    posted, aggErr, profile, extVars, svcVars >>

\* wg.Add(1); go func() {...}() for the next dependency.
Launch ==
    /\ hpc = "launch"
    /\ Cardinality(Unfinished) + Cardinality(PeerUnfinished) < MaxInFlight
    /\ wg' = wg + 1
    /\ tpc' = [tpc EXCEPT ![Deps[launched + 1]] = "run"]
    /\ launched' = launched + 1
    /\ hpc' = IF launched + 1 = Len(Deps) THEN "wait" ELSE "launch"
    /\ UNCHANGED << req, status, out, sent, text, response, errors, mu, reply, result,
                    posted, aggErr, profile, extVars, svcVars >>

\* AfterCall as it would be if a failed call ended the goroutine at once,
\* its error unrecorded.
AfterCallDropsError(d, res) ==
    IF res.err = NilErr /\ ShapeOK(d, res.Value) THEN "lock" ELSE "done"

\* AfterCall as it would be if a failed call were tried again.
AfterCallRetries(d, res) ==
    IF res.err # NilErr THEN "run"
    ELSE IF ShapeOK(d, res.Value) THEN "lock"
    ELSE "done"

\* Where a goroutine goes with what callMicroservice returned: to the lock
\* with an error or a value of the expected shape, else to its end (the
\* deferred wg.Done()).
AfterCall(d, res) ==
    IF res.err # NilErr THEN "lock"
    ELSE IF ShapeOK(d, res.Value) THEN "lock"
    ELSE "done"

\* CtxDone as it would be if the call were made under r.Context().
CtxDoneWithRequest(conn) == ~conn

\* Whether the context client.Post runs under is done: it is
\* context.Background(), which the inbound connection does not end.
CtxDone(conn) == FALSE

\* Goroutine d runs callMicroservice(url, text) and the type assertion.
Call(d) ==
    /\ tpc[d] = "run"
    /\ \E r \in (IF CtxDone(connected) THEN {FailTransport} ELSE Replies(d, profile)) :
          /\ reply' = [reply EXCEPT ![d] = r]
          /\ result' = [result EXCEPT ![d] = callMicroservice(d, text, r)]
          /\ tpc' = [tpc EXCEPT ![d] = AfterCall(d, callMicroservice(d, text, r))]
          /\ wg' = IF AfterCall(d, callMicroservice(d, text, r)) = "done"
                   THEN wg - 1 ELSE wg
    /\ posted' = [posted EXCEPT ![d] = Append(@, Payload(d, text))]
    /\ UNCHANGED << hpc, req, status, out, sent, text, response, errors, mu, launched,
                    aggErr, profile, extVars, svcVars >>

\* Lock as it would be if mu.Lock() did not wait for the mutex to be free.
LockBarging(d) ==
    /\ tpc[d] = "lock"
    /\ mu' = d
    /\ tpc' = [tpc EXCEPT ![d] = "locked"]
    /\ UNCHANGED << hpc, req, status, out, sent, text, response, errors, wg, launched,
                    reply, result, posted, aggErr, profile, extVars, svcVars >>

\* mu.Lock()
Lock(d) ==
    /\ tpc[d] = "lock"
    /\ mu = "free"
    /\ mu' = d
    /\ tpc' = [tpc EXCEPT ![d] = "locked"]
    /\ UNCHANGED << hpc, req, status, out, sent, text, response, errors, wg, launched,
                    reply, result, posted, aggErr, profile, extVars, svcVars >>

\* Merge as it would be if the error branch set Degraded itself.
MergeFlagsEarly(d) ==
    /\ tpc[d] = "locked"
    /\ IF result[d].err = NilErr
       THEN /\ response' = Assemble(d, result[d].Value, response)
            /\ errors' = errors
       ELSE /\ errors' = Append(errors, WrapError(d, result[d].err))
            /\ response' = [response EXCEPT !.Degraded = TRUE]
    /\ mu' = "free"
    /\ tpc' = [tpc EXCEPT ![d] = "done"]
    /\ wg' = wg - 1
    /\ UNCHANGED << hpc, req, status, out, sent, text, launched, reply, result, posted,
                    aggErr, profile, extVars, svcVars >>

\* Merge as it would be if the error branch ended without mu.Unlock().
MergeKeepsLock(d) ==
    /\ tpc[d] = "locked"
    /\ IF result[d].err = NilErr
       THEN /\ response' = Assemble(d, result[d].Value, response)
            /\ errors' = errors
            /\ mu' = "free"
       ELSE /\ errors' = Append(errors, WrapError(d, result[d].err))
            /\ response' = response
            /\ mu' = mu
    /\ tpc' = [tpc EXCEPT ![d] = "done"]
    /\ wg' = wg - 1
    /\ UNCHANGED << hpc, req, status, out, sent, text, launched, reply, result, posted,
                    aggErr, profile, extVars, svcVars >>

\* The locked section: the field write(s) or the append, then mu.Unlock(),
\* and the goroutine ends (the deferred wg.Done()).
Merge(d) ==
    /\ tpc[d] = "locked"
    /\ IF result[d].err = NilErr
       THEN /\ response' = Assemble(d, result[d].Value, response)
            /\ errors' = errors
       ELSE /\ errors' = Append(errors, WrapError(d, result[d].err))
            /\ response' = response
    /\ mu' = "free"
    /\ tpc' = [tpc EXCEPT ![d] = "done"]
    /\ wg' = wg - 1
    /\ UNCHANGED << hpc, req, status, out, sent, text, launched, reply, result, posted,
                    aggErr, profile, extVars, svcVars >>

\* Finish as it would be if the degraded flag were never set.
FinishUnflagged(resp, errs) == resp

\* The response aggregateAnalysis returns after the join.
Finish(resp, errs) ==
    IF Len(errs) > 0 THEN [resp EXCEPT !.Degraded = TRUE] ELSE resp

\* Join as it would be without wg.Wait().
JoinWithoutWait ==
    /\ hpc = "wait"
    /\ response' = Finish(response, errors)
    /\ aggErr' = NilErr
    /\ hpc' = "returned"
    /\ UNCHANGED << req, status, out, sent, text, errors, mu, wg, launched, tpc, reply,
                    result, posted, profile, extVars, svcVars >>

\* Join as it would be if recorded errors were returned to the caller.
JoinReturnsError ==
    /\ hpc = "wait"
    /\ wg = 0
    /\ response' = Finish(response, errors)
    /\ aggErr' = IF Len(errors) > 0 THEN "some services failed" ELSE NilErr
    /\ hpc' = "returned"
    /\ UNCHANGED << req, status, out, sent, text, errors, mu, wg, launched, tpc, reply,
                    result, posted, profile, extVars, svcVars >>

\* wg.Wait() returns; Degraded is set; return response, nil.
Join ==
    /\ hpc = "wait"
    /\ wg = 0
    /\ response' = Finish(response, errors)
    /\ aggErr' = NilErr
    /\ hpc' = "returned"
    /\ UNCHANGED << req, status, out, sent, text, errors, mu, wg, launched, tpc, reply,
                    result, posted, profile, extVars, svcVars >>

\* handleAnalyze after aggregateAnalysis: 500 on an error, else the JSON.
Respond ==
    /\ hpc = "returned"
    /\ IF aggErr # NilErr
       THEN /\ status' = StatusInternalServerError
            /\ out' = "error"
            /\ sent' = sent
       ELSE /\ status' = StatusOK
            /\ out' = "json"
            /\ sent' = response
    /\ hpc' = "done"
    /\ UNCHANGED << req, aggVars, profile, extVars, svcVars >>

\* ------------------------------------------- a second, concurrent request

\* The text of the second request, which has passed handleAnalyze's
\* validation on its own goroutine of the HTTP server.
PeerText == <<104, 105>>

\* What the exchange with dependency d comes to for the second request:
\* its calls to the dependencies in Failing fail.
PeerReplies(d) ==
    IF d \in Failing THEN {Failure(d)} ELSE {Envelope(GoodValue(d))}

\* The second request's handler calls aggregateAnalysis(text): the call
\* has its own wg, mu, response and errors.
PeerAccept ==
    /\ peer = <<>>
    /\ peer' = << [NoCall EXCEPT !.text = PeerText,
                                 !.response = NewResponse(PeerText)] >>
    /\ UNCHANGED << hpc, req, status, out, sent, aggVars, profile, timedOut, connected, svcVars >>

\* wg.Add(1); go func() {...}() in the second call.
PeerLaunch ==
    /\ peer # <<>>
    /\ peer[1].pc = "launch"
    /\ Cardinality(Unfinished) + Cardinality(PeerUnfinished) < MaxInFlight
    /\ peer' = [peer EXCEPT ![1].wg = @ + 1,
                            ![1].tpc[Deps[peer[1].launched + 1]] = "run",
                            ![1].launched = @ + 1,
                            ![1].pc = IF peer[1].launched + 1 = Len(Deps) THEN "wait" ELSE "launch"]
    /\ UNCHANGED << hpc, req, status, out, sent, aggVars, profile, timedOut, connected, svcVars >>

\* Goroutine d of the second call runs callMicroservice and the type
\* assertion.
PeerCall(d) ==
    /\ peer # <<>>
    /\ peer[1].tpc[d] = "run"
    /\ \E r \in PeerReplies(d) :
          peer' = [peer EXCEPT
                      ![1].reply[d] = r,
                      ![1].result[d] = callMicroservice(d, peer[1].text, r),
                      ![1].tpc[d] = AfterCall(d, callMicroservice(d, peer[1].text, r)),
                      ![1].wg = IF AfterCall(d, callMicroservice(d, peer[1].text, r)) = "done"
                             THEN @ - 1 ELSE @]
    /\ UNCHANGED << hpc, req, status, out, sent, aggVars, profile, timedOut, connected, svcVars >>

\* mu.Lock() on the second call's mutex.
PeerLock(d) ==
    /\ peer # <<>>
    /\ peer[1].tpc[d] = "lock"
    /\ peer[1].mu = "free"
    /\ peer' = [peer EXCEPT ![1].mu = d, ![1].tpc[d] = "locked"]
    /\ UNCHANGED << hpc, req, status, out, sent, aggVars, profile, timedOut, connected, svcVars >>

\* PeerMerge as it would be if the error list were one package-level
\* slice shared by all calls of aggregateAnalysis.
PeerMergeSharedErrors(d) ==
    /\ peer # <<>>
    /\ peer[1].tpc[d] = "locked"
    /\ IF peer[1].result[d].err = NilErr
       THEN /\ peer' = [peer EXCEPT
                           ![1].response = Assemble(d, peer[1].result[d].Value, @),
                           ![1].mu = "free", ![1].tpc[d] = "done", ![1].wg = @ - 1]
            /\ errors' = errors
       ELSE /\ peer' = [peer EXCEPT ![1].mu = "free", ![1].tpc[d] = "done", ![1].wg = @ - 1]
            /\ errors' = Append(errors, WrapError(d, peer[1].result[d].err))
    /\ UNCHANGED << hpc, req, status, out, sent, text, response, mu, wg, launched, tpc,
                    reply, result, posted, aggErr, profile, timedOut, connected, svcVars >>

\* The locked section of goroutine d of the second call, on the second
\* call's response and errors, and the goroutine's end.
PeerMerge(d) ==
    /\ peer # <<>>
    /\ peer[1].tpc[d] = "locked"
    /\ peer' = IF peer[1].result[d].err = NilErr
               THEN [peer EXCEPT
                        ![1].response = Assemble(d, peer[1].result[d].Value, @),
                        ![1].mu = "free", ![1].tpc[d] = "done", ![1].wg = @ - 1]
               ELSE [peer EXCEPT
                        ![1].errors = Append(@, WrapError(d, peer[1].result[d].err)),
                        ![1].mu = "free", ![1].tpc[d] = "done", ![1].wg = @ - 1]
    /\ UNCHANGED << hpc, req, status, out, sent, aggVars, profile, timedOut, connected, svcVars >>

\* wg.Wait() returns in the second call; Degraded is set; return.
PeerJoin ==
    /\ peer # <<>>
    /\ peer[1].pc = "wait"
    /\ peer[1].wg = 0
    /\ peer' = [peer EXCEPT ![1].response = Finish(peer[1].response, peer[1].errors),
                            ![1].pc = "returned"]
    /\ UNCHANGED << hpc, req, status, out, sent, aggVars, profile, timedOut, connected, svcVars >>

\* ------------------------------------ slow dependencies, a lost caller

\* The dependencies that have left this request's call unanswered.
Hung == {d \in DepSet : tpc[d] = "call"} \cup timedOut

\* Goroutine d's callMicroservice posts to a dependency that does not
\* answer: client.Post blocks, the client's timer running.
Hang(d) ==
    /\ tpc[d] = "run"
    /\ Cardinality(Hung) < MaxHung
    /\ tpc' = [tpc EXCEPT ![d] = "call"]
    /\ posted' = [posted EXCEPT ![d] = Append(@, Payload(d, text))]
    /\ UNCHANGED << hpc, req, status, out, sent, text, response, errors, mu, wg, launched,
                    reply, result, aggErr, profile, extVars, svcVars >>

\* Timeout as it would be if the http.Client had no Timeout set.
TimeoutUnset(d) ==
    /\ tpc[d] = "call"
    /\ FALSE
    /\ UNCHANGED vars

\* The client's Timeout has passed: client.Post returns an error, and the
\* goroutine goes on as after any failed call.
Timeout(d) ==
    /\ tpc[d] = "call"
    /\ timedOut' = timedOut \cup {d}
    /\ reply' = [reply EXCEPT ![d] = FailTransport]
    /\ result' = [result EXCEPT ![d] = callMicroservice(d, text, FailTransport)]
    /\ tpc' = [tpc EXCEPT ![d] = AfterCall(d, callMicroservice(d, text, FailTransport))]
    /\ wg' = IF AfterCall(d, callMicroservice(d, text, FailTransport)) = "done"
             THEN wg - 1 ELSE wg
    /\ UNCHANGED << hpc, req, status, out, sent, text, response, errors, mu, launched,
                    posted, aggErr, profile, peer, connected, svcVars >>

\* The caller closes the inbound connection while aggregateAnalysis runs.
Disconnect ==
    /\ hpc \in {"launch", "wait"}
    /\ connected
    /\ connected' = FALSE
    /\ UNCHANGED << hpc, req, status, out, sent, aggVars, profile, peer, timedOut, svcVars >>

Next ==
    \/ Receive
    \/ Reject
    \/ Accept
    \/ Launch
    \/ \E d \in DepSet : Call(d)
    \/ \E d \in DepSet : Lock(d)
    \/ \E d \in DepSet : Merge(d)
    \/ Join
    \/ Respond

Spec == Init /\ [][Next]_vars

SpecDrift == InitDrift /\ [][Next]_vars

InitShapes == Start("shapes")

SpecShapes == InitShapes /\ [][Next]_vars

\* A request served by dependencies that may not answer, for a caller
\* that may go away.
NextLive ==
    \/ Next
    \/ \E d \in DepSet : Hang(d)
    \/ \E d \in DepSet : Timeout(d)
    \/ Disconnect

\* What the program does of itself once a request has come in: the Go
\* scheduler runs every goroutine that can run, a free mutex is handed to a
\* goroutine waiting for it, and the client's timer fires when its time is
\* up.
Served ==
    \/ Reject
    \/ Accept
    \/ Launch
    \/ \E d \in DepSet : Call(d) \/ Hang(d) \/ Timeout(d) \/ Lock(d) \/ Merge(d)
    \/ Join
    \/ Respond

InitLive == Start("calm")

SpecLive == InitLive /\ [][NextLive]_vars /\ WF_vars(Served)

\* Two requests at once.
NextPair ==
    \/ Next
    \/ PeerAccept
    \/ PeerLaunch
    \/ \E d \in DepSet : PeerCall(d)
    \/ \E d \in DepSet : PeerLock(d)
    \/ \E d \in DepSet : PeerMerge(d)
    \/ PeerJoin

InitPair == Start("pair")

SpecPair == InitPair /\ [][NextPair]_vars

\* ------------------------------------- the downstream services' counter

\* The requests a service's /op may get: a POST with a JSON body, a POST
\* whose body is no JSON, and a request that is no POST.
OpRequests ==
    { [method |-> "POST", json |-> TRUE],
      [method |-> "POST", json |-> FALSE],
      [method |-> "GET", json |-> FALSE] }

\* The calls of handleOp that have not returned.
HandlersRunning == {i \in DOMAIN ops : ops[i].pc # "done"}

\* net/http starts handleOp in a goroutine of its own for a request to /op.
OpArrive ==
    /\ Len(ops) < MaxOps
    /\ Cardinality(HandlersRunning) < MaxInFlight
    /\ \E s \in Counting, r \in OpRequests :
          ops' = Append(ops, [to |-> s, method |-> r.method, json |-> r.json,
                              pc |-> "entered", status |-> 0])
    /\ UNCHANGED << hpc, req, status, out, sent, aggVars, profile, extVars,
                    requestCounter, scraped >>

\* AddInt64 as it would be were the counter read and written back in two
\* steps: two handlers that read the same value both write that value
\* plus one.
AddInt64Unsynchronised(i) ==
    /\ i \in DOMAIN ops
    /\ ops[i].pc = "entered"
    /\ requestCounter' = [requestCounter EXCEPT ![ops[i].to] = @ + 1]
    /\ \/ ops' = [ops EXCEPT ![i].pc = "counted"]
       \/ \E j \in DOMAIN ops :
             /\ j # i
             /\ ops[j].pc = "entered"
             /\ ops[j].to = ops[i].to
             /\ ops' = [ops EXCEPT ![i].pc = "counted", ![j].pc = "counted"]
    /\ UNCHANGED << hpc, req, status, out, sent, aggVars, profile, extVars, scraped >>

\* handleOp's first statement: atomic.AddInt64(&requestCounter, 1).
AddInt64(i) ==
    /\ i \in DOMAIN ops
    /\ ops[i].pc = "entered"
    /\ requestCounter' = [requestCounter EXCEPT ![ops[i].to] = @ + 1]
    /\ ops' = [ops EXCEPT ![i].pc = "counted"]
    /\ UNCHANGED << hpc, req, status, out, sent, aggVars, profile, extVars, scraped >>

\* The status handleOp answers with: 405 to a request that is no POST;
\* to a body that is no JSON the normalizer answers 400 and the
\* transliterator 200 with an error in the envelope.
handleOpStatus(service, method, json) ==
    IF method # "POST" THEN StatusMethodNotAllowed
    ELSE IF ~json /\ service = "normalizer" THEN StatusBadRequest
    ELSE StatusOK

\* The rest of handleOp: the method check, the body, the answer.
handleOp(i) ==
    /\ i \in DOMAIN ops
    /\ ops[i].pc = "counted"
    /\ ops' = [ops EXCEPT ![i].pc = "done",
                          ![i].status = handleOpStatus(ops[i].to, ops[i].method, ops[i].json)]
    /\ UNCHANGED << hpc, req, status, out, sent, aggVars, profile, extVars,
                    requestCounter, scraped >>

\* handleMetrics: a GET is answered op_requests_total, read with
\* atomic.LoadInt64; any other method 405.
handleMetrics ==
    /\ \E s \in Counting, m \in Methods :
          scraped' = IF m # "GET"
                     THEN [service |-> s, status |-> StatusMethodNotAllowed, count |-> 0]
                     ELSE [service |-> s, status |-> StatusOK, count |-> requestCounter[s]]
    /\ UNCHANGED << hpc, req, status, out, sent, aggVars, profile, extVars,
                    requestCounter, ops >>

\* The services under requests to /op and /metrics.
NextCounter ==
    \/ OpArrive
    \/ \E i \in 1..MaxOps : AddInt64(i)
    \/ \E i \in 1..MaxOps : handleOp(i)
    \/ handleMetrics

InitCounter == Start("calm")

SpecCounter == InitCounter /\ [][NextCounter]_vars

\* ------------------------------------------------------------- properties

\* The request passes handleAnalyze's validation: a POST whose body is a
\* JSON object with a non-empty string "text".
Valid == req.method = "POST" /\ req.body.kind = "string" /\ req.body.text # <<>>

\* aggregateAnalysis has returned (and the caller may have been answered).
Joined == Valid /\ hpc \in {"returned", "done"}

\* The exchange with dependency d has come to an end.
Replied(d) == reply[d] # NoReply

\* It ended in a call error: transport, status, body read or decode.
CallFailed(d) ==
    /\ Replied(d)
    /\ \/ reply[d].transportErr
       \/ reply[d].status # StatusOK
       \/ reply[d].readErr
       \/ ~reply[d].decodable

\* It ended in an HTTP 200 with a decodable envelope.
CallSucceeded(d) == Replied(d) /\ ~CallFailed(d)

\* The shape the assembler expects of each dependency's value.
ExpectedKind(d) ==
    CASE d \in {"normalizer", "transliterator", "slugger", "hasher"} -> "string"
      [] d \in {"tokenizer", "entropy"} -> "number"
      [] d = "counter" -> "object"
      [] d = "palindrome" -> "bool"

\* A member of a JSON object is present and a number.
NumericMember(v, key) ==
    \E i \in 1..Len(v.o) : v.o[i][1] = key /\ v.o[i][2].kind = "number"

\* The envelope's value has the expected shape.
WellShaped(d) ==
    /\ CallSucceeded(d)
    /\ reply[d].value.kind = ExpectedKind(d)
    /\ d = "counter" =>
          \A key \in {"unique_words", "bigram_count", "unique_chars"} :
             NumericMember(reply[d].value, key)

Misshapen(d) == CallSucceeded(d) /\ reply[d].value.kind # ExpectedKind(d)

\* The field(s) of r that dependency d owns are at their zero value.
AtZero(d, r) ==
    CASE d = "normalizer" -> r.Normalized = ""
      [] d = "transliterator" -> r.Transliterated = ""
      [] d = "slugger" -> r.Slug = ""
      [] d = "tokenizer" -> r.Tokens = 0
      [] d = "counter" -> r.UniqueWords = 0 /\ r.BigramCount = 0 /\ r.UniqueChars = 0
      [] d = "hasher" -> r.Hash64 = ""
      [] d = "entropy" -> r.Entropy = 0
      [] d = "palindrome" -> r.Palindrome = FALSE

\* An integer field holds the number (in tenths) cut to an integer.
Truncated(field, tenths) ==
    IF tenths >= 0
    THEN field * 10 <= tenths /\ tenths < (field + 1) * 10
    ELSE (field - 1) * 10 < tenths /\ tenths <= field * 10

\* The value of member `key` of a JSON object.
Member(v, key) == v.o[CHOOSE i \in 1..Len(v.o) : v.o[i][1] = key][2]

\* The field(s) of r that dependency d owns carry the well-shaped value v.
Carries(d, r, v) ==
    CASE d = "normalizer" -> r.Normalized = v.s
      [] d = "transliterator" -> r.Transliterated = v.s
      [] d = "slugger" -> r.Slug = v.s
      [] d = "tokenizer" -> Truncated(r.Tokens, v.n)
      [] d = "counter" ->
            /\ Truncated(r.UniqueWords, Member(v, "unique_words").n)
            /\ Truncated(r.BigramCount, Member(v, "bigram_count").n)
            /\ Truncated(r.UniqueChars, Member(v, "unique_chars").n)
      [] d = "hasher" -> r.Hash64 = v.s
      [] d = "entropy" -> r.Entropy = v.n
      [] d = "palindrome" -> r.Palindrome = v.b

\* C1: for a non-empty text, when all 8 dependency calls fail, the request
\* is still answered with HTTP 200 and a response with degraded = true,
\* every dependency-sourced field at its zero value and char_count equal to
\* the text's byte length.
C1_AllFailStillOK ==
    (Valid /\ hpc = "done" /\ \A d \in DepSet : CallFailed(d)) =>
        /\ status = StatusOK
        /\ out = "json"
        /\ sent.Degraded = TRUE
        /\ \A d \in DepSet : AtZero(d, sent)
        /\ sent.CharCount = GoLen(req.body.text)

C1_Witness ==
    /\ Valid /\ hpc = "done" /\ status = StatusOK
    /\ \A d \in DepSet : CallFailed(d)
    /\ req.body.text = <<233, 8364>>

\* C2: after the join, degraded is true exactly when the error list is
\* non-empty, which is exactly when at least one dependency call ended in a
\* call error.
C2_DegradedIffErrors ==
    Joined =>
        /\ response.Degraded = (Len(errors) > 0)
        /\ (Len(errors) > 0) = (\E d \in DepSet : CallFailed(d))

C2_Witness ==
    /\ Joined
    /\ response.Degraded
    /\ Len(errors) = 2
    /\ \E d \in DepSet : Misshapen(d)
    /\ \E d \in DepSet : WellShaped(d)

\* C3: after the join, for any set of failing dependencies, every failing
\* dependency's field(s) are at the zero value, every dependency that
\* answered with a well-shaped value has that value in its field(s), and
\* degraded is true as soon as one call failed.
C3_FailedZeroOthersFilled ==
    Joined =>
        /\ \A d \in DepSet : CallFailed(d) => AtZero(d, response)
        /\ \A d \in DepSet : WellShaped(d) => Carries(d, response, reply[d].value)
        /\ (\E d \in DepSet : CallFailed(d)) => response.Degraded

\* Only the palindrome call failed; the other 7 answered well-shaped.
C3_Witness ==
    /\ Joined /\ hpc = "done" /\ sent = response
    /\ CallFailed("palindrome")
    /\ \A d \in DepSet \ {"palindrome"} : WellShaped(d)
    /\ response.Palindrome = FALSE
    /\ response.Degraded

\* C4: when all 8 dependencies answer with a well-shaped value, the
\* response sent carries each value in its target field (numbers bound for
\* integer fields cut to integers), degraded = false, and nothing else.
C4_AllSucceed ==
    (Valid /\ hpc = "done" /\ \A d \in DepSet : WellShaped(d)) =>
        /\ status = StatusOK
        /\ \A d \in DepSet : Carries(d, sent, reply[d].value)
        /\ sent.Degraded = FALSE
        /\ sent.CharCount = GoLen(req.body.text)

C4_Witness ==
    /\ Valid /\ hpc = "done"
    /\ \A d \in DepSet : WellShaped(d)
    /\ sent.Tokens = 7 /\ sent.Palindrome /\ sent.Entropy = 32
    /\ sent.Slug = "a-man-a-plan" /\ sent.UniqueChars = 15

\* C5: from the moment the response exists, whatever the dependencies do,
\* char_count is the number of bytes of the request's text (not of its code
\* points), in the shared response and in the response sent.
C5_CharCountIsByteLength ==
    (Valid /\ hpc \notin {"idle", "recv"}) =>
        /\ response.CharCount = GoLen(req.body.text)
        /\ (hpc = "done") => sent.CharCount = GoLen(req.body.text)

\* Two code points, five bytes; one call failed, one value was merged.
C5_Witness ==
    /\ Valid /\ hpc = "done"
    /\ Len(req.body.text) = 2
    /\ sent.CharCount = 5
    /\ \E d \in DepSet : CallFailed(d)
    /\ \E d \in DepSet : WellShaped(d)

\* C6: aggregateAnalysis has returned only if every one of the 8 goroutines
\* has ended, each after one call of its own that ran to its end: no
\* failure ends the wait early or ends another goroutine.
C6_ReturnsAfterAllTasks ==
    Joined =>
        /\ wg = 0
        /\ \A d \in DepSet : tpc[d] = "done" /\ Replied(d) /\ Len(posted[d]) = 1

\* A call has failed and its goroutine ended while a sibling is mid-call
\* and the orchestrator still waits.
C6_Witness ==
    /\ Valid /\ hpc = "wait"
    /\ \E d \in DepSet : tpc[d] = "done" /\ CallFailed(d)
    /\ \E d \in DepSet : tpc[d] = "run"

\* C7: a dependency that answers HTTP 200 with a decodable envelope whose
\* value has another shape leaves its field(s) at zero and no entry in the
\* error list; every entry of the error list is a transport, status, read
\* or decode failure of a call that failed; and when no call failed,
\* degraded is false.
C7_MismatchIsSilent ==
    Joined =>
        /\ \A d \in DepSet :
              Misshapen(d) =>
                 /\ AtZero(d, response)
                 /\ \A i \in 1..Len(errors) : errors[i].dep # d
        /\ \A i \in 1..Len(errors) :
              /\ CallFailed(errors[i].dep)
              /\ errors[i].cause \in {"transport", "status", "read", "decode"}
        /\ (\A d \in DepSet : CallSucceeded(d)) => ~response.Degraded

\* All 8 values are misshapen and nothing else is wrong.
C7_Witness ==
    /\ Joined /\ hpc = "done" /\ status = StatusOK
    /\ \A d \in DepSet : Misshapen(d)
    /\ errors = <<>>
    /\ ~sent.Degraded

\* The body is malformed JSON (it is not one JSON value and nothing more),
\* or its text is missing or empty.
BadBody ==
    \/ req.body.kind = "malformed"
    \/ req.body.trailing
    \/ req.body.kind = "absent"
    \/ req.body.kind = "string" /\ req.body.text = <<>>

\* C8: a POST whose body is malformed JSON or whose text is missing or
\* empty is answered with HTTP 400, and no goroutine is started and no
\* dependency called for it.
C8_BadBodyRejected ==
    (req.method = "POST" /\ BadBody) =>
        /\ hpc \in {"recv", "done"}
        /\ launched = 0
        /\ \A d \in DepSet : tpc[d] = "idle" /\ posted[d] = <<>>
        /\ (hpc = "done") => (status = StatusBadRequest /\ out = "error")

\* C8, as far as it holds: a POST whose body does not begin with a JSON
\* object, or whose text is missing or empty, is answered with HTTP 400
\* and no goroutine is started for it.
C8_LeadingValueRejected ==
    (req.method = "POST" /\ (req.body.kind # "string" \/ req.body.text = <<>>)) =>
        /\ hpc \in {"recv", "done"}
        /\ launched = 0
        /\ \A d \in DepSet : tpc[d] = "idle" /\ posted[d] = <<>>
        /\ (hpc = "done") => (status = StatusBadRequest /\ out = "error")

\* C9: aggregateAnalysis returns no error, no request is answered with
\* HTTP 500, and a request that passed validation is answered with HTTP
\* 200 and the whole aggregate response.
C9_NoOrchestrationFailure ==
    /\ aggErr = NilErr
    /\ status # StatusInternalServerError
    /\ (Valid /\ hpc = "done") => (status = StatusOK /\ out = "json" /\ sent = response)

C9_Witness ==
    /\ Valid /\ hpc = "done" /\ status = StatusOK
    /\ Len(errors) >= 3
    /\ \E d \in DepSet : Misshapen(d)

RECURSIVE MergedInLaunchOrder(_, _)
\* The response after the goroutines from the i-th on have merged what
\* they got, one after the other in the order they were started.
MergedInLaunchOrder(i, resp) ==
    IF i > Len(Deps) THEN resp
    ELSE MergedInLaunchOrder(i + 1,
            IF result[Deps[i]].err = NilErr /\ ShapeOK(Deps[i], result[Deps[i]].Value)
            THEN Assemble(Deps[i], result[Deps[i]].Value, resp)
            ELSE resp)

\* C10: after the join the response depends only on what each dependency's
\* call returned, not on the order in which the goroutines merged: it is
\* the response a merge in launch order gives, with degraded set when a
\* call returned an error.
C10_OrderIndependent ==
    Joined =>
        response =
            [MergedInLaunchOrder(1, NewResponse(text))
                EXCEPT !.Degraded = \E d \in DepSet : result[d].err # NilErr]

\* The counter's goroutine (started fifth) merged before the normalizer's
\* (started first).
C10_Witness ==
    /\ Joined
    /\ Len(errors) = 2 /\ errors[1].dep = "counter" /\ errors[2].dep = "normalizer"
    /\ response.Slug # "" /\ response.Hash64 # ""
    /\ response.Degraded

\* The second call's exchange with dependency d ended in a call error.
PeerCallFailed(d) ==
    /\ peer # <<>>
    /\ peer[1].reply[d] # NoReply
    /\ \/ peer[1].reply[d].transportErr
       \/ peer[1].reply[d].status # StatusOK
       \/ peer[1].reply[d].readErr
       \/ ~peer[1].reply[d].decodable

\* It ended in an HTTP 200 with an envelope whose value has the expected
\* shape.
PeerWellShaped(d) ==
    /\ peer # <<>>
    /\ peer[1].reply[d] # NoReply
    /\ ~PeerCallFailed(d)
    /\ peer[1].reply[d].value.kind = ExpectedKind(d)

\* C11: with two requests in progress at once, each call of
\* aggregateAnalysis has its own response and error list, written by its
\* own goroutines only: an error list holds failures of its own call's
\* exchanges only, a field is set only from its own call's answer, and
\* after each join degraded, the fields and char_count are what that
\* request's own exchanges and text make them.
C11_RequestsIsolated ==
    /\ \A i \in 1..Len(errors) : CallFailed(errors[i].dep)
    /\ \A d \in DepSet : ~AtZero(d, response) => WellShaped(d)
    /\ Joined =>
          /\ response.Degraded = (\E d \in DepSet : CallFailed(d))
          /\ \A d \in DepSet : WellShaped(d) => Carries(d, response, reply[d].value)
          /\ response.CharCount = GoLen(req.body.text)
    /\ peer # <<>> =>
          /\ \A i \in 1..Len(peer[1].errors) : PeerCallFailed(peer[1].errors[i].dep)
          /\ \A d \in DepSet : ~AtZero(d, peer[1].response) => PeerWellShaped(d)
          /\ peer[1].response.CharCount = GoLen(PeerText)
          /\ peer[1].pc = "returned" =>
                /\ peer[1].response.Degraded = (\E d \in DepSet : PeerCallFailed(d))
                /\ Len(peer[1].errors) = Cardinality({d \in DepSet : PeerCallFailed(d)})
                /\ \A d \in DepSet :
                      PeerWellShaped(d) =>
                         Carries(d, peer[1].response, peer[1].reply[d].value)

\* The first request's call has returned undegraded with all 8 fields set
\* while the second's, with a failure already in its error list, still has
\* goroutines running.
C11_Witness ==
    /\ Valid /\ hpc = "returned"
    /\ ~response.Degraded /\ errors = <<>>
    /\ \A d \in DepSet : WellShaped(d)
    /\ peer # <<>>
    /\ peer[1].pc = "wait"
    /\ Len(peer[1].errors) >= 1
    /\ PeerUnfinished # {}

\* C12: while a call is unanswered and its client's timer has not fired,
\* aggregateAnalysis has not returned; once a call has timed out, the join
\* finds its field(s) at zero, its entry in the error list and degraded
\* set; an unanswered call ends by its timer firing and in no other way,
\* and leads to the request being answered, degraded; and every validated
\* request is eventually answered with HTTP 200.
C12_TimeoutEndsTheWait ==
    /\ [](\A d \in DepSet :
             tpc[d] = "call" => (hpc \in {"launch", "wait"} /\ d \notin timedOut))
    /\ [](Joined =>
             \A d \in timedOut :
                /\ AtZero(d, response)
                /\ response.Degraded
                /\ \E i \in 1..Len(errors) : errors[i].dep = d)
    /\ [][\A d \in DepSet :
             (tpc[d] = "call" /\ tpc'[d] # "call") => d \in timedOut']_vars
    /\ (\E d \in DepSet : tpc[d] = "call") ~>
          /\ hpc = "done"
          /\ timedOut # {}
          /\ sent.Degraded
          /\ \A d \in timedOut : AtZero(d, sent)
    /\ (Valid /\ hpc = "recv") ~> (hpc = "done" /\ status = StatusOK /\ out = "json")

\* The orchestrator waits for one goroutine only, whose call is unanswered:
\* the other 7 have ended.
C12_Witness ==
    /\ Valid /\ hpc = "wait" /\ wg = 1
    /\ \E d \in DepSet :
          /\ tpc[d] = "call"
          /\ \A e \in DepSet \ {d} : tpc[e] = "done" /\ WellShaped(e)

\* C13: no dependency is posted to more than once for a request, whether
\* its call fails or not; each post goes to its own dependency with the
\* request's text; and when aggregateAnalysis has returned each of the 8
\* dependencies has been posted to exactly once.
C13_OneCallEach ==
    /\ \A d \in DepSet :
          /\ Len(posted[d]) <= 1
          /\ (Len(posted[d]) = 1) = Replied(d)
          /\ \A i \in 1..Len(posted[d]) :
                posted[d][i].url = d /\ posted[d][i].Text = req.body.text
    /\ Joined => Cardinality({d \in DepSet : Len(posted[d]) = 1}) = Len(Deps)

\* Four calls failed and none was repeated.
C13_Witness ==
    /\ Joined
    /\ Len(errors) = 4
    /\ \A d \in DepSet : Len(posted[d]) = 1

\* C14: a request with another method than POST is rejected with HTTP 405,
\* whatever its body (a malformed body does not make it a 400), and no
\* goroutine is started and no dependency posted to for it.
C14_MethodChecked ==
    (hpc # "idle" /\ req.method # "POST") =>
        /\ hpc \in {"recv", "done"}
        /\ launched = 0
        /\ \A d \in DepSet : tpc[d] = "idle" /\ posted[d] = <<>>
        /\ (hpc = "done") =>
              (status = StatusMethodNotAllowed /\ out = "error")

\* A GET whose body is not JSON has been answered with 405.
C14_Witness ==
    /\ hpc = "done"
    /\ req.method = "GET"
    /\ req.body.kind = "malformed"
    /\ status = StatusMethodNotAllowed

\* C15: callMicroservice returns an error exactly when the exchange failed
\* in transport (a timeout included), ended in a status other than 200,
\* in an unreadable body or in a body that is no envelope, the error
\* naming the first of these that applies; otherwise it returns the
\* envelope's value as it came, whatever its shape.
C15_ClientErrors ==
    \A d \in DepSet :
        /\ (result[d] # NoResult) = Replied(d)
        /\ Replied(d) =>
              /\ (result[d].err # NilErr) = CallFailed(d)
              /\ reply[d].transportErr => result[d].err = "transport"
              /\ (~reply[d].transportErr /\ reply[d].status # StatusOK) =>
                    result[d].err = "status"
              /\ (~reply[d].transportErr /\ reply[d].status = StatusOK /\ reply[d].readErr) =>
                    result[d].err = "read"
              /\ (/\ ~reply[d].transportErr /\ reply[d].status = StatusOK
                  /\ ~reply[d].readErr /\ ~reply[d].decodable) =>
                    result[d].err = "decode"
              /\ CallSucceeded(d) => result[d].Value = reply[d].value

\* Each of the four ways to fail has occurred, a null value and an object
\* have been returned as they came.
C15_Witness ==
    /\ result["normalizer"].err = "transport"
    /\ result["hasher"].err = "status"
    /\ result["slugger"].err = "read"
    /\ result["tokenizer"].err = "decode"
    /\ result["transliterator"] = [err |-> NilErr, Value |-> JNull]
    /\ result["counter"] = [err |-> NilErr, Value |-> GoodValue("counter")]

\* C16: the caller's disconnection ends no call: no call fails but by its
\* own timeout; when aggregateAnalysis has returned for a caller that has
\* gone, all 8 goroutines have ended after one call each and the response
\* is what the answers make it, as for a caller that stayed; and after a
\* disconnection the request is still served to its end.
C16_DisconnectCancelsNothing ==
    /\ [](\A d \in DepSet : CallFailed(d) => d \in timedOut)
    /\ []((Joined /\ ~connected) =>
             /\ wg = 0
             /\ \A d \in DepSet : tpc[d] = "done" /\ Len(posted[d]) = 1
             /\ \A d \in DepSet \ timedOut :
                   WellShaped(d) /\ Carries(d, response, reply[d].value)
             /\ response.Degraded = (timedOut # {}))
    /\ (~connected) ~> (hpc = "done" /\ \A d \in DepSet : tpc[d] = "done")

\* The caller went away during the fan-out and all 8 values were merged
\* all the same.
C16_Witness ==
    /\ Joined /\ hpc = "done" /\ ~connected
    /\ \A d \in DepSet : WellShaped(d) /\ Carries(d, response, reply[d].value)
    /\ ~response.Degraded

\* What a step that releases the lock has done: one append to the error
\* list, or the write of the holder's own field(s), and nothing else.
OneContribution(d) ==
    \/ /\ errors' = Append(errors, [dep |-> d, cause |-> result[d].err])
       /\ response' = response
    \/ /\ errors' = errors
       /\ \A e \in DepSet \ {d} : AtZero(e, response') = AtZero(e, response)
       /\ response'.Degraded = response.Degraded
       /\ response'.CharCount = response.CharCount

\* C17: the lock is held only by a goroutine whose call has returned, never
\* by one that has not called yet, is mid-call or has ended; it is held
\* for one contribution and released in the step that ends the goroutine;
\* while a request is being served some step of the program is always
\* possible; there comes a time after which no goroutine waits for the lock
\* or holds it; and a waiting orchestrator gets past the barrier.
C17_LockNeverAcrossCall ==
    /\ [](\A d \in DepSet :
             /\ (mu = d) = (tpc[d] = "locked")
             /\ tpc[d] = "locked" => (Replied(d) /\ result[d] # NoResult)
             /\ tpc[d] \in {"idle", "run", "call", "done"} => mu # d)
    /\ [][\A d \in DepSet :
             (mu = d /\ mu' # d) =>
                (mu' = "free" /\ tpc'[d] = "done" /\ OneContribution(d))]_vars
    /\ [](hpc \in {"recv", "launch", "wait", "returned"} => ENABLED Served)
    /\ <>[](\A d \in DepSet : tpc[d] \notin {"lock", "locked"})
    /\ (hpc = "wait") ~> (hpc = "returned")

\* One goroutine holds the lock, a second waits for it, and the call of the
\* first has long returned.
C17_Witness ==
    \E d \in DepSet, e \in DepSet :
        /\ mu = d /\ tpc[d] = "locked" /\ Replied(d)
        /\ tpc[e] = "lock"
        /\ e \in timedOut

\* The fan-out is under way before and after the step.
InFanOut == hpc \in {"launch", "wait"} /\ hpc' \in {"launch", "wait"}

\* C18: at most one goroutine is in its locked section, and it holds mu;
\* during the fan-out a step that changes the response or the error list
\* is a step of the goroutine holding mu, which makes its one contribution
\* and ends, no other goroutine moving; and every failed call whose
\* goroutine has ended has its entry in the error list.
C18_WritesUnderLock ==
    /\ [](/\ Cardinality({d \in DepSet : tpc[d] = "locked"}) <= 1
          /\ \A d \in DepSet : tpc[d] = "locked" => mu = d)
    /\ [][(InFanOut /\ (response' # response \/ errors' # errors)) =>
             \E d \in DepSet :
                /\ mu = d /\ tpc[d] = "locked"
                /\ tpc'[d] = "done"
                /\ \A e \in DepSet \ {d} : tpc'[e] = tpc[e]
                /\ OneContribution(d)]_vars
    /\ [](Len(errors) = Cardinality({d \in DepSet : CallFailed(d) /\ tpc[d] = "done"}))

\* One goroutine with a failed call is in its locked section, another
\* waits for the lock with its own failure, and the list has entries.
C18_Witness ==
    \E d \in DepSet, e \in DepSet :
        /\ tpc[d] = "locked" /\ CallFailed(d)
        /\ tpc[e] = "lock" /\ CallFailed(e)
        /\ Len(errors) >= 2

\* C19: degraded is false all through the fan-out; it changes in one kind
\* of step only, the one that takes the orchestrator past the barrier, from
\* false to true, when the error list is non-empty, no goroutine being left
\* that could touch the list or the response; and after that step none is.
C19_DegradedAfterBarrier ==
    /\ [](hpc \in {"recv", "launch", "wait"} => ~response.Degraded)
    /\ [][(response'.Degraded # response.Degraded) =>
             /\ hpc = "wait" /\ hpc' = "returned"
             /\ wg = 0 /\ mu = "free"
             /\ \A d \in DepSet : tpc[d] = "done"
             /\ ~response.Degraded /\ Len(errors) > 0
             /\ errors' = errors]_vars
    /\ [](hpc \in {"returned", "done"} =>
             (mu = "free" /\ \A d \in DepSet : tpc[d] \in {"idle", "done"}))

\* Errors are on the list, goroutines still run, degraded is still false.
C19_Witness ==
    /\ hpc = "wait"
    /\ Len(errors) >= 2
    /\ wg > 0
    /\ ~response.Degraded

\* C20: after the join the error list has one entry for each dependency
\* whose call failed and no other; during the fan-out the list changes only
\* by the goroutine holding the lock appending one entry, with its own
\* name, at the end, so that entries stand in the order the failing
\* goroutines had the lock and the list never gets shorter.
C20_ErrorListInLockOrder ==
    /\ [](Joined =>
             /\ \A d \in DepSet :
                   Cardinality({i \in 1..Len(errors) : errors[i].dep = d})
                      = (IF CallFailed(d) THEN 1 ELSE 0)
             /\ Len(errors) = Cardinality({d \in DepSet : CallFailed(d)}))
    /\ [][(InFanOut /\ errors' # errors) =>
             /\ mu \in DepSet
             /\ CallFailed(mu)
             /\ Len(errors') = Len(errors) + 1
             /\ SubSeq(errors', 1, Len(errors)) = errors
             /\ errors'[Len(errors')].dep = mu]_vars
    /\ [][InFanOut => Len(errors') >= Len(errors)]_vars

\* Three failures, listed in the order their goroutines had the lock,
\* which is not the order they were started in.
C20_Witness ==
    /\ Joined
    /\ Len(errors) = 3
    /\ errors[1].dep = "slugger"
    /\ errors[2].dep = "palindrome"
    /\ errors[3].dep = "normalizer"

\* The field(s) of r that dependency d owns.
Owned(d, r) ==
    CASE d = "normalizer" -> <<r.Normalized>>
      [] d = "transliterator" -> <<r.Transliterated>>
      [] d = "slugger" -> <<r.Slug>>
      [] d = "tokenizer" -> <<r.Tokens>>
      [] d = "counter" -> <<r.UniqueWords, r.BigramCount, r.UniqueChars>>
      [] d = "hasher" -> <<r.Hash64>>
      [] d = "entropy" -> <<r.Entropy>>
      [] d = "palindrome" -> <<r.Palindrome>>

\* C21: in every state, before the barrier too, a dependency's field(s)
\* differ from zero only if its own call has ended in an HTTP 200 with a
\* value of the expected shape and its goroutine has ended; and a
\* dependency's field(s) change only in a step of its own goroutine holding
\* the lock, and only from zero: what is written is never reset or written
\* over.
C21_FieldsSetByOwnerOnly ==
    /\ [](\A d \in DepSet :
             ~AtZero(d, response) =>
                /\ CallSucceeded(d)
                /\ reply[d].value.kind = ExpectedKind(d)
                /\ tpc[d] = "done")
    /\ [][\A d \in DepSet :
             Owned(d, response') # Owned(d, response) =>
                (mu = d /\ AtZero(d, response))]_vars

\* Before the barrier: the slug is set, the normalizer's call has failed,
\* the transliterator's value was of another shape, a goroutine still runs.
C21_Witness ==
    /\ hpc = "wait" /\ wg > 0
    /\ ~AtZero("slugger", response)
    /\ CallFailed("normalizer") /\ AtZero("normalizer", response)
    /\ Misshapen("transliterator") /\ AtZero("transliterator", response)
    /\ \E d \in DepSet : tpc[d] = "run"

\* C22: every request posted to a dependency is a POST to its /op with the
\* inbound request's text as it came and without "deps", whatever the other
\* calls have returned by then; so all posts of a request carry one and the
\* same text.
C22_SameTextNoDeps ==
    /\ \A d \in DepSet :
          \A i \in 1..Len(posted[d]) :
             posted[d][i] =
                [url |-> d, path |-> "/op", Text |-> req.body.text, hasDeps |-> FALSE]
    /\ \A d \in DepSet, e \in DepSet :
          (posted[d] # <<>> /\ posted[e] # <<>>) => posted[d][1].Text = posted[e][1].Text

\* All 8 have been posted to with the two code points of the text, the
\* outputs of the normalizer and the transliterator being in the response.
C22_Witness ==
    /\ Joined
    /\ \A d \in DepSet : Len(posted[d]) = 1 /\ posted[d][1].Text = <<233, 8364>>
    /\ response.Normalized # "" /\ response.Transliterated # ""
    /\ CallFailed("hasher")

\* Dependency d answered HTTP 200 with an envelope whose value is null and
\* whose error string is not empty.
Refused(d) ==
    /\ CallSucceeded(d)
    /\ reply[d].value = JNull
    /\ reply[d].error # ""

\* C23: when a dependency answers HTTP 200 with a null value and an error
\* string, callMicroservice returns a nil error and a nil Value (the error
\* string is not decoded); no entry of the error list is that dependency's;
\* after the join its field is at zero; and a request whose calls all
\* ended in HTTP 200 envelopes, refusals included, is answered 200 with
\* degraded false.
C23_RefusalIsSilent ==
    /\ \A d \in DepSet : Refused(d) => result[d] = [err |-> NilErr, Value |-> JNull]
    /\ \A i \in 1..Len(errors) : ~Refused(errors[i].dep)
    /\ Joined =>
          /\ \A d \in DepSet : Refused(d) => AtZero(d, response)
          /\ (\A d \in DepSet : CallSucceeded(d)) =>
                (errors = <<>> /\ ~response.Degraded)
    /\ (Valid /\ hpc = "done") => (status = StatusOK /\ sent = response)

\* The normalizer, the transliterator and the slugger have refused, the
\* hasher's value is in the response sent, which is not degraded.
C23_Witness ==
    /\ Valid /\ hpc = "done" /\ status = StatusOK
    /\ \A d \in Refusing : Refused(d)
    /\ sent.Normalized = "" /\ sent.Transliterated = "" /\ sent.Slug = ""
    /\ sent.Hash64 # ""
    /\ ~sent.Degraded

CounterKeys == {"unique_words", "bigram_count", "unique_chars"}

\* The field of r that a key of the counter's object is bound for.
KeyField(key, r) ==
    CASE key = "unique_words" -> r.UniqueWords
      [] key = "bigram_count" -> r.BigramCount
      [] key = "unique_chars" -> r.UniqueChars

\* C24: after the join, when the counter answered with an object, each of
\* the three keys that is present and a number is in its own field (cut to
\* an integer) and each other key's field is 0, whatever the other two keys
\* are; when it answered with a value that is no object all three fields
\* are 0; and in neither case is there an entry of the counter's in the
\* error list.
C24_CounterKeysIndependent ==
    (Joined /\ CallSucceeded("counter")) =>
        /\ reply["counter"].value.kind = "object" =>
              \A key \in CounterKeys :
                 IF NumericMember(reply["counter"].value, key)
                 THEN Truncated(KeyField(key, response),
                                Member(reply["counter"].value, key).n)
                 ELSE KeyField(key, response) = 0
        /\ reply["counter"].value.kind # "object" =>
              \A key \in CounterKeys : KeyField(key, response) = 0
        /\ \A i \in 1..Len(errors) : errors[i].dep # "counter"

\* The counter's object has a numeric unique_words, a bigram_count that is
\* a string and no unique_chars: the first field alone is set.
C24_Witness ==
    /\ Joined
    /\ reply["counter"] = Envelope(CounterWithoutChars)
    /\ response.UniqueWords = 6
    /\ response.BigramCount = 0
    /\ response.UniqueChars = 0
    /\ errors = <<>> /\ ~response.Degraded

\* The goroutines that start in a step, and those that end in it.
Starting == {d \in DepSet : tpc[d] = "idle" /\ tpc'[d] # "idle"}

Ending == {d \in DepSet : tpc[d] # "done" /\ tpc'[d] = "done"}

\* C25: the wait group's counter is never negative and is the number of
\* goroutines started and not ended; it goes up by one in the step that
\* starts a goroutine and down by one in the step that ends one, whether
\* the call failed, its value was merged or its value was of another
\* shape; a goroutine that has ended stays ended; and the orchestrator
\* gets past wg.Wait() only at 0, no goroutine being left.
C25_WaitGroupCounts ==
    /\ [](wg >= 0 /\ wg = Cardinality(Unfinished))
    /\ [](hpc \in {"returned", "done"} => (wg = 0 /\ Unfinished = {}))
    /\ [][wg' - wg = Cardinality(Starting) - Cardinality(Ending)]_vars
    /\ [][\A d \in DepSet : tpc[d] = "done" => tpc'[d] = "done"]_vars
    /\ [][(hpc = "wait" /\ hpc' # "wait") => (wg = 0 /\ Unfinished = {})]_vars

\* All 8 are started, 2 are still running and the counter is 2; among
\* those that ended are a failed call, a merged value and a value of
\* another shape.
C25_Witness ==
    /\ hpc = "wait" /\ launched = Len(Deps)
    /\ wg = 2
    /\ \E d \in DepSet : tpc[d] = "done" /\ CallFailed(d)
    /\ \E d \in DepSet : tpc[d] = "done" /\ WellShaped(d)
    /\ \E d \in DepSet : tpc[d] = "done" /\ Misshapen(d)

\* C26: after the join, a number answered by the tokenizer is in tokens
\* with its fraction dropped, toward zero for a negative number as for a
\* positive one, and any other value answered leaves tokens at 0; the same
\* holds of each numeric key of the counter's object and its field.
C26_TruncatedTowardZero ==
    Joined =>
        /\ CallSucceeded("tokenizer") =>
              IF reply["tokenizer"].value.kind = "number"
              THEN Truncated(response.Tokens, reply["tokenizer"].value.n)
              ELSE response.Tokens = 0
        /\ (CallSucceeded("counter") /\ reply["counter"].value.kind = "object") =>
              \A key \in CounterKeys :
                 NumericMember(reply["counter"].value, key) =>
                    Truncated(KeyField(key, response),
                              Member(reply["counter"].value, key).n)

\* The tokenizer answered -7.5 and tokens is -7; the counter's
\* bigram_count was -2.5 and the field is -2.
C26_Witness ==
    /\ Joined
    /\ reply["tokenizer"] = Envelope(JNum(-75))
    /\ response.Tokens = -7
    /\ reply["counter"] = Envelope(CounterOnlyBigrams)
    /\ response.BigramCount = -2
    /\ response.UniqueWords = 0

\* The requests to service s's /op: all, those whose handler has not yet
\* run its first statement, and those whose handler has.
OpsTo(s) == {i \in DOMAIN ops : ops[i].to = s}

OpsEntered(s) == {i \in OpsTo(s) : ops[i].pc = "entered"}

OpsCounted(s) == OpsTo(s) \ OpsEntered(s)

\* C27: a service's requestCounter is the number of requests to its /op
\* whose handler has run its first statement, whatever the method and the
\* body and however the handlers interleave: a request answered 405 or 400
\* has been counted, each handler adds exactly one, no step lowers the
\* counter, once no handler is at its first statement the counter is the
\* number of requests received, and a GET of /metrics is answered the
\* counter's value at that moment.
C27_CounterCountsEveryOp ==
    /\ [](\A s \in Counting :
             /\ requestCounter[s] = Cardinality(OpsCounted(s))
             /\ OpsEntered(s) = {} => requestCounter[s] = Cardinality(OpsTo(s)))
    /\ [](\A i \in DOMAIN ops : ops[i].status # 0 => i \in OpsCounted(ops[i].to))
    /\ [](scraped.status = StatusOK => scraped.count <= requestCounter[scraped.service])
    /\ [][\A s \in Counting :
             /\ requestCounter'[s] >= requestCounter[s]
             /\ requestCounter'[s] - requestCounter[s]
                   = Cardinality(OpsCounted(s)') - Cardinality(OpsCounted(s))
             /\ requestCounter'[s] - requestCounter[s] \in {0, 1}]_vars
    /\ [][(scraped' # scraped /\ scraped'.status = StatusOK) =>
             /\ scraped'.count = requestCounter[scraped'.service]
             /\ scraped'.count = Cardinality(OpsCounted(scraped'.service))]_vars

\* The normalizer got a request that is no POST, a POST whose body is no
\* JSON, and a good POST; it answered 405, 400 and 200, its counter is 3
\* and /metrics said 3.
C27_Witness ==
    /\ Len(ops) = 3
    /\ \A i \in DOMAIN ops : ops[i].to = "normalizer" /\ ops[i].pc = "done"
    /\ {ops[i].status : i \in DOMAIN ops}
          = {StatusMethodNotAllowed, StatusBadRequest, StatusOK}
    /\ requestCounter["normalizer"] = 3
    /\ scraped = [service |-> "normalizer", status |-> StatusOK, count |-> 3]

====
